---- MODULE Spec2Model ----
(***************************************************************************)
(* Model of the kafkareader package of cdpzyafk/go-utils: the partition    *)
(* catalog (kafkalib.LookupPartitions), the consumer supervisor (Reader:   *)
(* CreateReader, Start, Close) and the per-partition worker                *)
(* (PartitionReader: Start, Stop, recover, createReader); and of TaskGroup *)
(* and SyncedData of its common package.                                   *)
(*                                                                         *)
(* The broker and the kafka-go client are the environment: a partition is  *)
(* a log whose messages sit at offsets 0, 1, ..., a connection is a cursor *)
(* on that log, a fetch returns the message under the cursor, redelivers   *)
(* an earlier one, or fails.                                               *)
(***************************************************************************)
EXTENDS Integers, Sequences, FiniteSets, TLC

\* ------------------------------------------------------------------ bounds
MaxBrokers == 3      \* longest broker list given to LookupPartitions
MaxParts == 2        \* most partitions a broker reports for the topic
MaxMsgs == 3         \* messages the broker holds, over all partitions (Spec)
MaxLog == 4          \* longest log of the partition (WorkerSpec)
MaxConns == 2        \* connections the workers create after construction in a run
IntBits == 24        \* width of Go's int in the model (64 in the build)
MaxTasks == 3        \* functions a client launches in one TaskGroup
MaxInits == 2        \* callers of SyncedData.Init, which may run concurrently
MaxRetries == 1      \* largest retryMax a SyncedData is configured with
MaxStarts == 2       \* calls of Reader.Start on one supervisor (RestartSpec)

\* ------------------------------------------------------------ value spaces
Addrs == {"A", "B"}
Topics == {"", "orders"}
LookupErrs == {"timeout", "refused"}
ConfigErrs == {"ErrNoBrokers", "ErrNoTopic", "ErrNoHandler"}

\* kafka.Partition values: the ID is what the package reads. A broker lists
\* the partitions 0..n-1 of a topic in the order of its metadata, which need
\* not be the order of the IDs.
PartList(n) == [i \in 1..n |-> i - 1]
Reversed(n) == [i \in 1..n |-> n - i]
PartLists == {PartList(n) : n \in 1..MaxParts} \cup {Reversed(MaxParts)}
Partitions == 0..(MaxParts - 1)
Workers == 1..MaxParts

\* What one call of lookupPartitions(addr, topic) answers.
Answers ==
    {[err |-> e, partitions |-> <<>>] : e \in LookupErrs}
        \cup {[err |-> "nil", partitions |-> pl] : pl \in PartLists}

\* --------------------------------------------------------------- variables
VARIABLES
    log,        \* broker: partition -> its newest offset (the length of its log)
    cfg,        \* the *Config CreateReader was called with, as the client set it
    queried,    \* the lookupPartitions calls made, in order: address and answer
    ret,        \* what CreateReader returned: called, ok (a *Reader) and err
    r,          \* the Reader struct
    reader,     \* worker -> pr.reader, the worker's current connection handle
    conns,      \* worker -> connections created (made), of these the ones still
                \* open (open) and the ones whose SetOffset succeeded (seeked)
    loops,      \* the goroutines running PartitionReader.Start
    lkIn,       \* LookupPartitions' arguments (catalog specification)
    lkOut,      \* LookupPartitions' results (catalog specification)
    ms,         \* common.TaskGroup: err, the WaitGroup's counter wg, and mutex
    tasks,      \* the goroutines TaskGroup.Go launched
    waiter,     \* the caller of TaskGroup.Wait
    sd,         \* common.SyncedData: its fields, and whether ctx is cancelled
    inits,      \* the callers of SyncedData.Init
    refresher,  \* the refreshLoop goroutine each caller of Init may start
    stopper,    \* the caller of SyncedData.Stop
    got         \* what the latest SyncedData.Get returned

vars ==
    <<log, cfg, queried, ret, r, reader, conns, loops, lkIn, lkOut,
      ms, tasks, waiter, sd, inits, refresher, stopper, got>>

brokerVars == <<log>>
createVars == <<cfg, queried, ret>>
lkVars == <<lkIn, lkOut>>
kafkaVars == <<log, cfg, queried, ret, r, reader, conns, loops, lkIn, lkOut>>
tgVars == <<ms, tasks, waiter>>
sdVars == <<sd, inits, refresher, stopper, got>>
commonVars == <<tgVars, sdVars>>

\* ------------------------------------------------------------ partition catalog
\* The for loop of LookupPartitions from the i-th address on; answers[i] is
\* what lookupPartitions(brokers[i], topic) returns.
\* The loop going on after a successful answer: the last one wins.
RECURSIVE LookupLastFrom(_, _, _)
LookupLastFrom(brokers, answers, i) ==
    IF i > Len(brokers)
    THEN [partitions |-> <<>>, err |-> "ErrNonePartionFound", queried |-> brokers]
    ELSE LET rest == LookupLastFrom(brokers, answers, i + 1) IN
         IF answers[i].err = "nil" /\ rest.err # "nil"
         THEN [partitions |-> answers[i].partitions, err |-> "nil",
               queried |-> brokers]
         ELSE rest

\* The loop returning the first address's error instead of trying the next.
LookupNoFailover(brokers, answers, i) ==
    IF i > Len(brokers)
    THEN [partitions |-> <<>>, err |-> "ErrNonePartionFound", queried |-> brokers]
    ELSE IF answers[i].err = "nil"
         THEN [partitions |-> answers[i].partitions, err |-> "nil",
               queried |-> SubSeq(brokers, 1, i)]
         ELSE [partitions |-> <<>>, err |-> answers[i].err,
               queried |-> SubSeq(brokers, 1, i)]

RECURSIVE LookupFrom(_, _, _)
LookupFrom(brokers, answers, i) ==
    IF i > Len(brokers)
    THEN [partitions |-> <<>>, err |-> "ErrNonePartionFound", queried |-> brokers]
    ELSE IF answers[i].err = "nil"
         THEN [partitions |-> answers[i].partitions, err |-> "nil",
               queried |-> SubSeq(brokers, 1, i)]
         ELSE LookupFrom(brokers, answers, i + 1)

LookupPartitions(brokers, answers) == LookupFrom(brokers, answers, 1)

\* -------------------------------------------------------------- connections
\* A kafka.Reader as the package uses it: id numbers the worker's connections
\* (its connection epochs), pos is the offset the next fetch reads, seekPos
\* the offset SetOffset put it at, and newest records the partition's newest
\* offset when the connection was made.
NoConn ==
    [id |-> 0, open |-> FALSE, seeked |-> FALSE, pos |-> 0, seekPos |-> 0,
     newest |-> 0]

\* kafka.FirstOffset and kafka.LastOffset resolved against a partition whose
\* newest offset is n.
FirstOffset(n) == 0
LastOffset(n) == n

\* A seek to the oldest offset instead of the newest.
SeekOldest(n) == FirstOffset(n)

\* The offset createReader seeks a new connection to: kafka.LastOffset.
SeekOffset(n) == LastOffset(n)

\* createReader: pr.reader = kafka.NewReader(...), then SetOffset(LastOffset),
\* which succeeds (ok) or fails. The new handle is stored in either case; a
\* kafka.Reader never seeked stands at FirstOffset.
createReader(id, n, ok) ==
    [id |-> id, open |-> TRUE, seeked |-> ok,
     pos |-> IF ok THEN SeekOffset(n) ELSE FirstOffset(n),
     seekPos |-> IF ok THEN SeekOffset(n) ELSE FirstOffset(n),
     newest |-> n]

\* NewPartitionReader: a worker and the error of its createReader.
NewPartitionReader(n, ok) ==
    [pr |-> createReader(1, n, ok), err |-> IF ok THEN "nil" ELSE "ErrSetOffset"]

\* What FetchMessage can return on connection c of a partition whose newest
\* offset is n: the message under the cursor, or a message the connection has
\* already returned (a redelivery). next is the cursor afterwards. A cursor at
\* or past the newest offset has nothing to return: the fetch blocks.
Fetchable(c, n) ==
    (IF c.pos < n THEN {[offset |-> c.pos, next |-> c.pos + 1]} ELSE {})
    \cup {[offset |-> k, next |-> c.pos] :
            k \in {j \in c.seekPos..(c.pos - 1) : j < n}}

\* ------------------------------------------------------------------ supervisor
\* Go's int: two's complement of IntBits bits, addition wrapping around.
MinInt == -(2 ^ (IntBits - 1))
MaxInt == 2 ^ (IntBits - 1) - 1
Wrap(x) == ((x - MinInt) % (2 ^ IntBits)) + MinInt
Add(a, b) == Wrap(a + b)

\* The defaults of the byte thresholds.
MINBYTES == 512
MAXBYTES == 4194304

\* The thresholds as a client leaves them when it does not set them.
Unset == 0

CfgBrokerLists == {<<>>, <<"A">>}
Configs ==
    [brokers : CfgBrokerLists, topic : Topics, handler : BOOLEAN,
     minBytes : {Unset}, maxBytes : {Unset}]
NoCfg ==
    [brokers |-> <<>>, topic |-> "", handler |-> FALSE,
     minBytes |-> Unset, maxBytes |-> Unset]

NoReader ==
    [topic |-> "", brokers |-> <<>>, handler |-> FALSE, partitions |-> <<>>,
     minBytes |-> 0, maxBytes |-> 0,
     readers |-> <<>>, status |-> FALSE, closing |-> FALSE]

\* The normalisation of cfg.MinBytes and cfg.MaxBytes in CreateReader: a
\* value <= 0 becomes the default, then a max below the min becomes min + 64.
NormalizeBytes(min, max) ==
    LET mn == IF min <= 0 THEN MINBYTES ELSE min
        mx == IF max <= 0 THEN MAXBYTES ELSE max
    IN [minBytes |-> mn, maxBytes |-> IF mx < mn THEN Add(mn, 64) ELSE mx]

\* The configuration checks with the handler tested before the topic.
ValidateHandlerFirst(c) ==
    IF Len(c.brokers) = 0 THEN "ErrNoBrokers"
    ELSE IF ~c.handler THEN "ErrNoHandler"
    ELSE IF c.topic = "" THEN "ErrNoTopic"
    ELSE "nil"

\* The three configuration checks of CreateReader, in the order of the code.
Validate(c) ==
    IF Len(c.brokers) = 0 THEN "ErrNoBrokers"
    ELSE IF c.topic = "" THEN "ErrNoTopic"
    ELSE IF ~c.handler THEN "ErrNoHandler"
    ELSE "nil"

\* The worker-construction loop of CreateReader over the partitions the
\* catalog returned: seeks[i] is whether the i-th worker's initial SetOffset
\* succeeds. built is the number of NewPartitionReader calls made, readers
\* the partition each reader appended to r.readers is bound to, err the error
\* the loop returns.
FirstFailed(n, seeks) ==
    IF \E i \in 1..n : ~seeks[i]
    THEN CHOOSE i \in 1..n : ~seeks[i] /\ \A j \in 1..(i - 1) : seeks[j]
    ELSE 0

\* The construction loop going on after a worker whose seek failed.
NewReadersKeepGoing(partitions, seeks) ==
    [built |-> Len(partitions), readers |-> partitions, err |-> "nil"]

\* Every worker bound to the partition the loop ends with.
NewReadersLastPartition(partitions, seeks) ==
    LET n == Len(partitions)  k == FirstFailed(n, seeks) IN
    IF k = 0
    THEN [built |-> n, readers |-> [i \in 1..n |-> partitions[n]], err |-> "nil"]
    ELSE [built |-> k, readers |-> <<>>, err |-> "ErrSetOffset"]

NewReaders(partitions, seeks) ==
    LET n == Len(partitions)  k == FirstFailed(n, seeks) IN
    IF k = 0
    THEN [built |-> n, readers |-> partitions, err |-> "nil"]
    ELSE [built |-> k, readers |-> <<>>, err |-> "ErrSetOffset"]

\* CreateReader(cfg): validation, normalisation of the byte thresholds,
\* partition lookup, one worker per partition. The read backoff it normalises
\* as well goes to kafka.NewReader unread by the package and is left out.
CreateReader(c, answers, seeks) ==
    /\ ~ret.called
    /\ cfg' = c
    /\ UNCHANGED <<brokerVars, loops, lkVars, commonVars>>
    /\ IF Validate(c) # "nil"
       THEN /\ ret' = [called |-> TRUE, ok |-> FALSE, err |-> Validate(c)]
            /\ UNCHANGED <<queried, r, reader, conns>>
       ELSE LET lk == LookupPartitions(c.brokers, answers) IN
            /\ queried' = [i \in 1..Len(lk.queried) |->
                             [addr |-> lk.queried[i], err |-> answers[i].err,
                              partitions |-> answers[i].partitions]]
            /\ IF lk.err # "nil"
               THEN /\ ret' = [called |-> TRUE, ok |-> FALSE, err |-> lk.err]
                    /\ UNCHANGED <<r, reader, conns>>
               ELSE LET nr == NewReaders(lk.partitions, seeks) IN
                    /\ reader' = [w \in Workers |->
                          IF w <= nr.built
                          THEN NewPartitionReader(log[lk.partitions[w]], seeks[w]).pr
                          ELSE reader[w]]
                    /\ conns' = [w \in Workers |->
                          IF w <= nr.built
                          THEN [made |-> 1, open |-> {1},
                                seeked |-> IF seeks[w] THEN {1} ELSE {}]
                          ELSE conns[w]]
                    /\ IF nr.err # "nil"
                       THEN /\ ret' = [called |-> TRUE, ok |-> FALSE, err |-> nr.err]
                            /\ UNCHANGED r
                       ELSE /\ ret' = [called |-> TRUE, ok |-> TRUE, err |-> "nil"]
                            /\ r' = [topic |-> c.topic, brokers |-> c.brokers,
                                     handler |-> c.handler,
                                     partitions |-> lk.partitions,
                                     minBytes |->
                                        NormalizeBytes(c.minBytes, c.maxBytes).minBytes,
                                     maxBytes |->
                                        NormalizeBytes(c.minBytes, c.maxBytes).maxBytes,
                                     readers |-> nr.readers,
                                     status |-> FALSE, closing |-> FALSE]

\* The goroutines Reader.Start launches: one PartitionReader.Start per reader,
\* which begins with maxOffset := 0. Beside the code's state a loop records
\* what it did: delivered, the offsets it passed to the handler from its
\* current connection, in order; before, the largest offset it passed to the
\* handler from earlier connections (-1: none); last, the message of its
\* latest successful fetch and whether the handler was invoked with it.
NoFetch == [offset |-> -1, handled |-> FALSE]
NewLoop(w) ==
    [w |-> w, pc |-> "fetch", maxOffset |-> 0, delivered |-> <<>>,
     before |-> -1, last |-> NoFetch]
\* Every goroutine running the reader the loop variable holds at the end.
LaunchedLast(readers) == [i \in 1..Len(readers) |-> NewLoop(Len(readers))]

Launched(readers) == [i \in 1..Len(readers) |-> NewLoop(i)]

\* Reader.Start
Start ==
    /\ ret.ok
    /\ loops' = loops \o Launched(r.readers)
    /\ r' = [r EXCEPT !.status = TRUE]
    /\ UNCHANGED <<brokerVars, createVars, reader, conns, lkVars, commonVars>>

\* PartitionReader.Stop on the worker a fetch loop l runs: an empty body, so
\* the loop is as it was.
Stop(l) == l

\* Reader.Close: closing = true, then Stop on every reader.
Close ==
    /\ ret.ok
    /\ r' = [r EXCEPT !.closing = TRUE]
    /\ loops' = [g \in DOMAIN loops |-> Stop(loops[g])]
    /\ UNCHANGED <<brokerVars, createVars, reader, conns, lkVars, commonVars>>

\* ---------------------------------------------------------------- the worker
\* The partition worker w reads: the partition its reader was constructed
\* with.
PartitionOf(w) == r.readers[w]

\* The dedup test written with < for <=.
DuplicateStrict(offset, maxOffset) == offset < maxOffset

\* The dedup test of the fetch loop: msg.Offset <= maxOffset.
Duplicate(offset, maxOffset) == offset <= maxOffset

\* One successful FetchMessage in the loop of PartitionReader.Start: a
\* duplicate is skipped, anything else raises maxOffset and goes to the
\* handler.
OnMessage(l, m) ==
    IF Duplicate(m.offset, l.maxOffset)
    THEN [l EXCEPT !.last = [offset |-> m.offset, handled |-> FALSE]]
    ELSE [l EXCEPT !.maxOffset = m.offset,
                   !.delivered = Append(@, m.offset),
                   !.last = [offset |-> m.offset, handled |-> TRUE]]

\* The largest offset of a sequence of offsets, -1 when it is empty.
RECURSIVE MaxOf(_)
MaxOf(q) ==
    IF q = <<>> THEN -1
    ELSE LET t == MaxOf(Tail(q)) IN IF Head(q) > t THEN Head(q) ELSE t
Larger(a, b) == IF a > b THEN a ELSE b

\* Connections created after construction, and the fetch loops that still
\* have to create one.
RECURSIVE Remade(_)
Remade(n) ==
    IF n = 0 THEN 0
    ELSE Remade(n - 1) + (IF conns[n].made > 1 THEN conns[n].made - 1 ELSE 0)
Recovering == {g \in DOMAIN loops : loops[g].pc \in {"recover", "retry"}}
CanFail == Remade(MaxParts) + Cardinality(Recovering) < MaxConns

\* FetchMessage returns a message.
FetchOK(g) ==
    /\ loops[g].pc = "fetch"
    /\ LET l == loops[g]  c == reader[l.w] IN
       /\ c.open
       /\ \E m \in Fetchable(c, log[PartitionOf(l.w)]) :
            /\ reader' = [reader EXCEPT ![l.w].pos = m.next]
            /\ loops' = [loops EXCEPT ![g] = OnMessage(l, m)]
    /\ UNCHANGED <<brokerVars, createVars, r, conns, lkVars, commonVars>>

\* FetchMessage returns a message that is no duplicate and the handler it is
\* passed to never returns: the goroutine stays in pr.parent.handleEvent.
HandlerHangs(g) ==
    /\ loops[g].pc = "fetch"
    /\ LET l == loops[g]  c == reader[l.w] IN
       /\ c.open
       /\ \E m \in Fetchable(c, log[PartitionOf(l.w)]) :
            /\ ~Duplicate(m.offset, l.maxOffset)
            /\ reader' = [reader EXCEPT ![l.w].pos = m.next]
            /\ loops' = [loops EXCEPT ![g] = [OnMessage(l, m) EXCEPT !.pc = "handle"]]
    /\ UNCHANGED <<brokerVars, createVars, r, conns, lkVars, commonVars>>

\* FetchMessage returns an error: sleep 200ms, then recover.
FetchErr(g) ==
    /\ loops[g].pc = "fetch"
    /\ CanFail
    /\ loops' = [loops EXCEPT ![g].pc = "recover"]
    /\ UNCHANGED <<brokerVars, createVars, r, reader, conns, lkVars, commonVars>>

\* maxOffset set back to 0 with every new connection.
ReconnectingReset(l) ==
    [l EXCEPT !.maxOffset = 0,
              !.before = Larger(@, MaxOf(l.delivered)),
              !.delivered = <<>>,
              !.last = NoFetch]

\* The fetch loop l when recover closes its connection: maxOffset, a local
\* of PartitionReader.Start declared before the loop, is kept; the record of
\* what the loop delivered starts a new connection epoch.
Reconnecting(l) ==
    [l EXCEPT !.before = Larger(@, MaxOf(l.delivered)),
              !.delivered = <<>>,
              !.last = NoFetch]

\* recover giving up after a createReader call that failed.
AfterCreateGiveUp(l, ok) == [l EXCEPT !.pc = IF ok THEN "fetch" ELSE "stopped"]

\* The loop of recover after one createReader call: break when it succeeded,
\* otherwise sleep 3s and continue.
AfterCreate(l, ok) == [l EXCEPT !.pc = IF ok THEN "fetch" ELSE "retry"]

\* createReader storing the new handle in a field all workers share.
RecreateShared(w, ok) ==
    reader' = [v \in Workers |->
        createReader(conns[w].made + 1, log[PartitionOf(w)], ok)]

\* One createReader call of recover for worker w, which succeeds or not.
Recreate(w, ok) ==
    reader' = [reader EXCEPT ![w] =
        createReader(conns[w].made + 1, log[PartitionOf(w)], ok)]

\* recover: close the current connection, then createReader; on failure
\* sleep 3s and try again. The connection epoch of the loop ends here.
Recover(g, ok) ==
    /\ loops[g].pc = "recover"
    /\ ok \/ CanFail
    /\ LET w == loops[g].w IN
       /\ Recreate(w, ok)
       /\ conns' = [conns EXCEPT ![w] =
            [made |-> @.made + 1,
             open |-> (@.open \ {reader[w].id}) \cup {@.made + 1},
             seeked |-> @.seeked \cup (IF ok THEN {@.made + 1} ELSE {})]]
    /\ loops' = [loops EXCEPT ![g] = Reconnecting(AfterCreate(@, ok))]
    /\ UNCHANGED <<brokerVars, createVars, r, lkVars, commonVars>>

\* The retry of recover's loop after the 3s sleep: createReader again.
Retry(g, ok) ==
    /\ loops[g].pc = "retry"
    /\ ok \/ CanFail
    /\ LET w == loops[g].w IN
       /\ Recreate(w, ok)
       /\ conns' = [conns EXCEPT ![w] =
            [made |-> @.made + 1, open |-> @.open \cup {@.made + 1},
             seeked |-> @.seeked \cup (IF ok THEN {@.made + 1} ELSE {})]]
    /\ loops' = [loops EXCEPT ![g] = AfterCreate(@, ok)]
    /\ UNCHANGED <<brokerVars, createVars, r, lkVars, commonVars>>

\* ------------------------------------------------------------------ the broker
\* A producer appends a message to partition p.
Produce(p) ==
    /\ log' = [log EXCEPT ![p] = @ + 1]
    /\ UNCHANGED <<createVars, r, reader, conns, loops, lkVars, commonVars>>

\* The partition loses the tail of its log (an unclean leader election, or
\* the topic deleted and created again): its newest offset goes back to k.
Truncate(p, k) ==
    /\ k < log[p]
    /\ log' = [log EXCEPT ![p] = k]
    /\ UNCHANGED <<createVars, r, reader, conns, loops, lkVars, commonVars>>

\* ---------------------------------------------------------- common.TaskGroup
\* An error value is nil or an aggregate; the aggregate is the sequence of
\* the errors appended, and a task's error is the task's number.
Nil == <<>>

\* multierr.Append(left, right) for a right that is not nil.
Append1(left, right) == left \o <<right>>

\* The zero TaskGroup; mutex is the task holding it, 0 when it is free.
NewTaskGroup == [err |-> Nil, wg |-> 0, mutex |-> 0]

\* Go(f): wg.Add(1), then a goroutine that runs f and passes what it returns
\* to done. fails is whether f returns an error.
Go(fails) ==
    /\ waiter.pc = "idle"
    /\ Len(tasks) < MaxTasks
    /\ ms' = [ms EXCEPT !.wg = @ + 1]
    /\ tasks' = Append(tasks, [pc |-> "f", fails |-> fails, read |-> Nil])
    /\ UNCHANGED <<kafkaVars, sdVars, waiter>>

\* f returns in task t and done begins: with a nil error it returns at once
\* and its deferred wg.Done runs; with an error it goes for the mutex.
FReturns(t) ==
    /\ tasks[t].pc = "f"
    /\ IF tasks[t].fails
       THEN /\ tasks' = [tasks EXCEPT ![t].pc = "lock"]
            /\ UNCHANGED ms
       ELSE /\ tasks' = [tasks EXCEPT ![t].pc = "done"]
            /\ ms' = [ms EXCEPT !.wg = @ - 1]
    /\ UNCHANGED <<kafkaVars, sdVars, waiter>>

\* done taking no notice of the mutex.
NoLock(t) ==
    /\ tasks[t].pc = "lock"
    /\ tasks' = [tasks EXCEPT ![t].pc = "read"]
    /\ UNCHANGED <<kafkaVars, sdVars, ms, waiter>>

\* ms.mutex.Lock() in done.
Lock(t) ==
    /\ tasks[t].pc = "lock"
    /\ ms.mutex = 0
    /\ ms' = [ms EXCEPT !.mutex = t]
    /\ tasks' = [tasks EXCEPT ![t].pc = "read"]
    /\ UNCHANGED <<kafkaVars, sdVars, waiter>>

\* ms.err = multierr.Append(ms.err, err): the read of ms.err ...
ReadErr(t) ==
    /\ tasks[t].pc = "read"
    /\ tasks' = [tasks EXCEPT ![t].pc = "write", ![t].read = ms.err]
    /\ UNCHANGED <<kafkaVars, sdVars, ms, waiter>>

\* ... and the assignment of the aggregate made from what was read.
WriteErr(t) ==
    /\ tasks[t].pc = "write"
    /\ ms' = [ms EXCEPT !.err = Append1(tasks[t].read, t)]
    /\ tasks' = [tasks EXCEPT ![t].pc = "unlock", ![t].read = Nil]
    /\ UNCHANGED <<kafkaVars, sdVars, waiter>>

\* The deferred calls of done, last deferred first: mutex.Unlock, wg.Done.
Unlock(t) ==
    /\ tasks[t].pc = "unlock"
    /\ ms' = [ms EXCEPT !.mutex = IF @ = t THEN 0 ELSE @, !.wg = @ - 1]
    /\ tasks' = [tasks EXCEPT ![t].pc = "done"]
    /\ UNCHANGED <<kafkaVars, sdVars, waiter>>

\* Wait is called: it blocks in wg.Wait.
WaitCall ==
    /\ waiter.pc = "idle"
    /\ waiter' = [waiter EXCEPT !.pc = "wg.Wait"]
    /\ UNCHANGED <<kafkaVars, sdVars, ms, tasks>>

\* wg.Wait returns when the counter is zero, and Wait returns ms.err.
WaitReturn ==
    /\ waiter.pc = "wg.Wait"
    /\ ms.wg = 0
    /\ waiter' = [pc |-> "returned", err |-> ms.err]
    /\ UNCHANGED <<kafkaVars, sdVars, ms, tasks>>

\* --------------------------------------------------------- common.SyncedData
Callers == 1..MaxInits

\* NewSyncedData with the options WithRetryPolicy and WithImmediateRefresh:
\* nothing stored in d, initDone false, ctx not cancelled, wg at 0, runningMu
\* free (0, otherwise the refresher holding it).
NewSyncedData(retryMax, immediate) ==
    [d |-> "none", retryMax |-> retryMax, immediateRefresh |-> immediate,
     initDone |-> FALSE, cancelled |-> FALSE, wg |-> 0, runningMu |-> 0,
     lastRefreshOk |-> FALSE]

\* An execution context that may run refreshWithRetry: pc is where it is,
\* attempt the loop variable of refreshWithRetry, tick whether its ticker's
\* channel holds a tick (refreshers only).
Idle == [pc |-> "idle", attempt |-> 0, tick |-> FALSE]
NoRefresher == [pc |-> "none", attempt |-> 0, tick |-> FALSE]

\* The contexts executing f.
InF ==
    {<<"Init", i>> : i \in {j \in Callers : inits[j].pc = "f"}}
        \cup {<<"refreshLoop", i>> : i \in {j \in Callers : refresher[j].pc = "f"}}

\* A swap that succeeds whatever the value is.
SwapAlways(v, old) == TRUE

\* atomic.Bool.CompareAndSwap(old, new): whether the value is old and is
\* swapped.
CompareAndSwap(v, old) == v = old

\* refreshWithRetry in context x when f has returned (ok: without error):
\* on success and after the last attempt it returns and x goes on at next,
\* otherwise it sleeps and calls f again.
AfterF(x, ok, next) ==
    IF ok \/ x.attempt = sd.retryMax
    THEN [x EXCEPT !.pc = next, !.attempt = 0]
    ELSE [x EXCEPT !.pc = "call", !.attempt = @ + 1]

\* What refreshWithRetry stores when f has returned in context x.
Refreshed(x, ok) ==
    IF ok THEN [sd EXCEPT !.d = "f", !.lastRefreshOk = TRUE]
    ELSE IF x.attempt = sd.retryMax THEN [sd EXCEPT !.lastRefreshOk = FALSE]
    ELSE sd

\* Init is called: the CompareAndSwap of initDone; the caller that loses it
\* returns an error, the other goes on to the immediate refresh or, without
\* it, to starting the refresh goroutine.
InitCall(i) ==
    /\ inits[i].pc = "idle"
    /\ IF CompareAndSwap(sd.initDone, FALSE)
       THEN /\ sd' = [sd EXCEPT !.initDone = TRUE]
            /\ inits' = [inits EXCEPT ![i].pc =
                            IF sd.immediateRefresh THEN "call" ELSE "spawn"]
       ELSE /\ inits' = [inits EXCEPT ![i].pc = "failed"]
            /\ UNCHANGED sd
    /\ UNCHANGED <<kafkaVars, tgVars, refresher, stopper, got>>

\* refreshWithRetry in Init calls f.
InitF(i) ==
    /\ inits[i].pc = "call"
    /\ inits' = [inits EXCEPT ![i].pc = "f"]
    /\ UNCHANGED <<kafkaVars, tgVars, sd, refresher, stopper, got>>

\* f returns in Init's refreshWithRetry.
InitFEnd(i, ok) ==
    /\ inits[i].pc = "f"
    /\ sd' = Refreshed(inits[i], ok)
    /\ inits' = [inits EXCEPT ![i] = AfterF(@, ok, "spawn")]
    /\ UNCHANGED <<kafkaVars, tgVars, refresher, stopper, got>>

\* Init: c.wg.Add(1); go c.refreshLoop(); return nil. The goroutine begins by
\* making its ticker.
InitSpawn(i) ==
    /\ inits[i].pc = "spawn"
    /\ sd' = [sd EXCEPT !.wg = @ + 1]
    /\ refresher' = [refresher EXCEPT ![i].pc = "select"]
    /\ inits' = [inits EXCEPT ![i].pc = "returned"]
    /\ UNCHANGED <<kafkaVars, tgVars, stopper, got>>

\* The interval t has passed: the ticker of refresher i sends a tick, which
\* its channel of capacity one holds until it is received.
Tick(i) ==
    /\ refresher[i].pc \notin {"none", "exited"}
    /\ ~refresher[i].tick
    /\ refresher' = [refresher EXCEPT ![i].tick = TRUE]
    /\ UNCHANGED <<kafkaVars, tgVars, sd, inits, stopper, got>>

\* The select of refreshLoop takes <-c.ctx.Done(): return, with the deferred
\* ticker.Stop and wg.Done.
LoopExit(i) ==
    /\ refresher[i].pc = "select"
    /\ sd.cancelled
    /\ refresher' = [refresher EXCEPT ![i].pc = "exited", ![i].tick = FALSE]
    /\ sd' = [sd EXCEPT !.wg = @ - 1]
    /\ UNCHANGED <<kafkaVars, tgVars, inits, stopper, got>>

\* The select of refreshLoop takes <-ticker.C.
LoopTick(i) ==
    /\ refresher[i].pc = "select"
    /\ refresher[i].tick
    /\ refresher' = [refresher EXCEPT ![i].pc = "lock", ![i].tick = FALSE]
    /\ UNCHANGED <<kafkaVars, tgVars, sd, inits, stopper, got>>

\* c.runningMu.Lock()
LoopLock(i) ==
    /\ refresher[i].pc = "lock"
    /\ sd.runningMu = 0
    /\ sd' = [sd EXCEPT !.runningMu = i]
    /\ refresher' = [refresher EXCEPT ![i].pc = "call"]
    /\ UNCHANGED <<kafkaVars, tgVars, inits, stopper, got>>

\* refreshWithRetry in refreshLoop calls f.
LoopF(i) ==
    /\ refresher[i].pc = "call"
    /\ refresher' = [refresher EXCEPT ![i].pc = "f"]
    /\ UNCHANGED <<kafkaVars, tgVars, sd, inits, stopper, got>>

\* f returns in refreshLoop's refreshWithRetry.
LoopFEnd(i, ok) ==
    /\ refresher[i].pc = "f"
    /\ sd' = Refreshed(refresher[i], ok)
    /\ refresher' = [refresher EXCEPT ![i] = AfterF(@, ok, "unlock")]
    /\ UNCHANGED <<kafkaVars, tgVars, inits, stopper, got>>

\* c.runningMu.Unlock(), and back to the select.
LoopUnlock(i) ==
    /\ refresher[i].pc = "unlock"
    /\ sd' = [sd EXCEPT !.runningMu = 0]
    /\ refresher' = [refresher EXCEPT ![i].pc = "select"]
    /\ UNCHANGED <<kafkaVars, tgVars, inits, stopper, got>>

\* Stop is called: c.cancel(), then it blocks in c.wg.Wait().
StopCall ==
    /\ stopper = "idle"
    /\ sd' = [sd EXCEPT !.cancelled = TRUE]
    /\ stopper' = "wg.Wait"
    /\ UNCHANGED <<kafkaVars, tgVars, inits, refresher, got>>

\* c.wg.Wait() returns when the counter is zero, and Stop returns.
StopReturn ==
    /\ stopper = "wg.Wait"
    /\ sd.wg = 0
    /\ stopper' = "returned"
    /\ UNCHANGED <<kafkaVars, tgVars, sd, inits, refresher, got>>

\* Set(v): an error before Init, otherwise v is stored.
Set ==
    /\ sd' = IF sd.initDone
             THEN [sd EXCEPT !.d = "set", !.lastRefreshOk = TRUE]
             ELSE sd
    /\ UNCHANGED <<kafkaVars, tgVars, inits, refresher, stopper, got>>

\* Get(): the default value and an error before Init or when nothing is
\* stored, otherwise what is stored.
Get ==
    /\ got' = IF sd.initDone /\ sd.d # "none"
              THEN [val |-> sd.d, ok |-> TRUE]
              ELSE [val |-> "default", ok |-> FALSE]
    /\ UNCHANGED <<kafkaVars, tgVars, sd, inits, refresher, stopper>>

\* ------------------------------------------------------------- specifications
NoLkIn == [brokers |-> <<>>, answers |-> <<>>]
NoLkOut == [called |-> FALSE, partitions |-> <<>>, err |-> "nil", queried |-> <<>>]

\* A SyncedData made with the given options, before any call.
SdInit(retryMax, immediate) ==
    /\ sd = NewSyncedData(retryMax, immediate)
    /\ inits = [i \in Callers |-> Idle]
    /\ refresher = [i \in Callers |-> NoRefresher]
    /\ stopper = "idle"
    /\ got = [val |-> "default", ok |-> FALSE]

\* A zero TaskGroup.
TgInit ==
    /\ ms = NewTaskGroup
    /\ tasks = <<>>
    /\ waiter = [pc |-> "idle", err |-> Nil]

\* The common package before any call: a zero TaskGroup and a SyncedData made
\* without options.
CommonInit == TgInit /\ SdInit(0, TRUE)

Init ==
    /\ log = [p \in Partitions |-> 0]
    /\ cfg = NoCfg
    /\ queried = <<>>
    /\ ret = [called |-> FALSE, ok |-> FALSE, err |-> "nil"]
    /\ r = NoReader
    /\ reader = [w \in Workers |-> NoConn]
    /\ conns = [w \in Workers |-> [made |-> 0, open |-> {}, seeked |-> {}]]
    /\ loops = <<>>
    /\ lkIn = NoLkIn
    /\ lkOut = NoLkOut
    /\ CommonInit

\* The client of the package: it constructs a supervisor over a topic whose
\* brokers report one of the partition lists in lists, starts it once and may
\* close it at any time (Construct, Start, then the workers run until Close).
ClientCreate(lists) ==
    \E c \in Configs :
        \E answers \in [1..Len(c.brokers) ->
                          {a \in Answers : a.err # "nil" \/ a.partitions \in lists}] :
            \E seeks \in [Workers -> BOOLEAN] : CreateReader(c, answers, seeks)
ClientStart == ~r.status /\ Start

\* Messages the broker holds, over the partitions 0..n-1.
RECURSIVE Stored(_)
Stored(n) == IF n = 0 THEN 0 ELSE Stored(n - 1) + log[n - 1]

\* The whole package over a topic of up to MaxParts partitions, with a broker
\* that appends.
Next ==
    \/ ClientCreate(PartLists)
    \/ ClientStart
    \/ Close
    \/ \E g \in DOMAIN loops : FetchOK(g)
    \/ \E g \in DOMAIN loops : FetchErr(g)
    \/ \E g \in DOMAIN loops : \E ok \in BOOLEAN : Recover(g, ok)
    \/ \E g \in DOMAIN loops : \E ok \in BOOLEAN : Retry(g, ok)
    \/ \E p \in Partitions : Stored(MaxParts) < MaxMsgs /\ Produce(p)

Spec == Init /\ [][Next]_vars

\* A step the goroutine running fetch loop g takes by itself: handling a
\* message its fetch returned, or a createReader of its recovery. The Go
\* scheduler runs every runnable goroutine, so a fetch loop that can take
\* such a step eventually does; nothing makes a blocked fetch fail.
LoopStep(g) ==
    /\ g \in DOMAIN loops
    /\ \/ FetchOK(g)
       \/ \E ok \in BOOLEAN : Recover(g, ok)
       \/ \E ok \in BOOLEAN : Retry(g, ok)

FairSpec == Spec /\ \A g \in Workers : WF_vars(LoopStep(g))

\* One partition in depth: the package over a one-partition topic whose
\* broker appends and may lose the tail of the log.
WNext ==
    \/ ClientCreate({PartList(1)})
    \/ ClientStart
    \/ Close
    \/ \E g \in DOMAIN loops : FetchOK(g)
    \/ \E g \in DOMAIN loops : FetchErr(g)
    \/ \E g \in DOMAIN loops : \E ok \in BOOLEAN : Recover(g, ok)
    \/ \E g \in DOMAIN loops : \E ok \in BOOLEAN : Retry(g, ok)
    \/ log[0] < MaxLog /\ Produce(0)
    \/ \E k \in 0..MaxLog : Truncate(0, k)

WorkerSpec == Init /\ [][WNext]_vars

\* A createReader call of fetch loop g's recovery that succeeds.
Reconnected(g) ==
    /\ g \in DOMAIN loops
    /\ Recover(g, TRUE) \/ Retry(g, TRUE)

\* The one-partition package with every fetch loop scheduled and a broker
\* that is not down for ever: of the createReader calls a recovery keeps
\* making, one succeeds.
RecoverSpec ==
    WorkerSpec /\ \A g \in Workers : WF_vars(LoopStep(g)) /\ WF_vars(Reconnected(g))

\* FetchMessage of fetch loop g returns the message under its cursor.
FetchNext(g) ==
    /\ g \in DOMAIN loops
    /\ FetchOK(g)
    /\ reader'[loops[g].w].pos > reader[loops[g].w].pos

\* The package over a topic of two partitions, one for a worker that stalls
\* and one for a worker that must not, with handlers that may never return
\* and recoveries that may never succeed: a goroutine blocked in FetchMessage
\* is woken when the broker has the message under its cursor; nothing is
\* assumed of a handler or of a recovery. The broker holds up to MaxMsgs + 1
\* messages, so that both partitions can hold one the dedup filter lets
\* through.
IsoNext ==
    \/ ClientCreate({PartList(2)})
    \/ ClientStart
    \/ \E g \in DOMAIN loops : FetchOK(g)
    \/ \E g \in DOMAIN loops : HandlerHangs(g)
    \/ \E g \in DOMAIN loops : FetchErr(g)
    \/ \E g \in DOMAIN loops : \E ok \in BOOLEAN : Recover(g, ok)
    \/ \E g \in DOMAIN loops : \E ok \in BOOLEAN : Retry(g, ok)
    \/ \E p \in 0..1 : Stored(MaxParts) <= MaxMsgs /\ Produce(p)

IsoSpec == Init /\ [][IsoNext]_vars /\ \A g \in Workers : WF_vars(FetchNext(g))

\* A client that calls Start and Close in any order and Start more than
\* once (up to MaxStarts times), on a supervisor over a one-partition topic.
\* Every Start launches a goroutine per reader; the goroutines of one worker
\* share pr.reader, and their steps on it are taken one at a time here.
RestartNext ==
    \/ ClientCreate({PartList(1)})
    \/ Len(loops) < MaxStarts * Len(r.readers) /\ Start
    \/ Close
    \/ \E g \in DOMAIN loops : FetchOK(g)
    \/ \E g \in DOMAIN loops : FetchErr(g)
    \/ \E g \in DOMAIN loops : \E ok \in BOOLEAN : Recover(g, ok)
    \/ \E g \in DOMAIN loops : \E ok \in BOOLEAN : Retry(g, ok)
    \/ Stored(MaxParts) < MaxMsgs /\ Produce(0)

RestartSpec == Init /\ [][RestartNext]_vars

\* The byte thresholds a client may supply: unset, negative, small, the
\* defaults, and the top of the integer range.
ByteValues ==
    {MinInt, -1, 0, 1, MINBYTES, MINBYTES + 1, MAXBYTES, MaxInt - 64, MaxInt - 63,
     MaxInt}
ByteConfigs ==
    [brokers : {<<"A">>}, topic : {"orders"}, handler : {TRUE},
     minBytes : ByteValues, maxBytes : ByteValues]

\* Construction on its own: CreateReader called with every pair of byte
\* thresholds of ByteValues, over a one-partition topic.
BytesCreate ==
    \E c \in ByteConfigs :
        \E answers \in [1..Len(c.brokers) ->
                          {a \in Answers : a.err # "nil" \/ a.partitions = PartList(1)}] :
            \E seeks \in [Workers -> BOOLEAN] : CreateReader(c, answers, seeks)

BytesNext == BytesCreate

BytesSpec == Init /\ [][BytesNext]_vars

\* A TaskGroup whose client launches up to MaxTasks functions, each
\* returning nil or an error, and then waits; the goroutines interleave.
TgNext ==
    \/ \E fails \in BOOLEAN : Go(fails)
    \/ \E t \in DOMAIN tasks : FReturns(t)
    \/ \E t \in DOMAIN tasks : Lock(t)
    \/ \E t \in DOMAIN tasks : ReadErr(t)
    \/ \E t \in DOMAIN tasks : WriteErr(t)
    \/ \E t \in DOMAIN tasks : Unlock(t)
    \/ WaitCall
    \/ WaitReturn

TaskGroupSpec == Init /\ [][TgNext]_vars

\* A SyncedData made with any retry policy up to MaxRetries and with or
\* without the immediate refresh, whose clients call Init (up to MaxInits of
\* them, concurrently), Stop, Set and Get in any order while f succeeds or
\* fails and the ticker ticks.
SdOptInit ==
    /\ Init!1 /\ Init!2 /\ Init!3 /\ Init!4 /\ Init!5
    /\ Init!6 /\ Init!7 /\ Init!8 /\ Init!9 /\ Init!10
    /\ TgInit
    /\ \E n \in 0..MaxRetries : \E b \in BOOLEAN : SdInit(n, b)

SdNext ==
    \/ \E i \in Callers : InitCall(i)
    \/ \E i \in Callers : InitF(i)
    \/ \E i \in Callers : \E ok \in BOOLEAN : InitFEnd(i, ok)
    \/ \E i \in Callers : InitSpawn(i)
    \/ \E i \in Callers : Tick(i)
    \/ \E i \in Callers : LoopExit(i)
    \/ \E i \in Callers : LoopTick(i)
    \/ \E i \in Callers : LoopLock(i)
    \/ \E i \in Callers : LoopF(i)
    \/ \E i \in Callers : \E ok \in BOOLEAN : LoopFEnd(i, ok)
    \/ \E i \in Callers : LoopUnlock(i)
    \/ StopCall
    \/ StopReturn
    \/ Set
    \/ Get

SyncedDataSpec == SdOptInit /\ [][SdNext]_vars

\* A step a goroutine takes by itself once it is inside Init or refreshLoop;
\* f returns.
SdStep(i) ==
    \/ InitF(i) \/ InitSpawn(i) \/ LoopLock(i) \/ LoopF(i) \/ LoopUnlock(i)
    \/ \E ok \in BOOLEAN : InitFEnd(i, ok) \/ LoopFEnd(i, ok)

\* The goroutines are scheduled and f returns; a select with several ready
\* cases picks one at random, so a refreshLoop that comes back to its select
\* with ctx cancelled again and again takes <-ctx.Done() at some time.
SyncedDataFairSpec ==
    /\ SyncedDataSpec
    /\ \A i \in Callers : WF_vars(SdStep(i)) /\ SF_vars(LoopExit(i))
    /\ WF_vars(StopReturn)

\* The partition catalog on its own: LookupPartitions applied to every broker
\* list of at most MaxBrokers addresses and every answer of each address.
LkInputs ==
    UNION {[brokers : [1..n -> Addrs], answers : [1..n -> Answers]] :
            n \in 0..MaxBrokers}

LkInit ==
    /\ Init!1 /\ Init!2 /\ Init!3 /\ Init!4
    /\ Init!5 /\ Init!6 /\ Init!7 /\ Init!8
    /\ lkIn \in LkInputs
    /\ lkOut = NoLkOut
    /\ CommonInit

LkCall ==
    /\ ~lkOut.called
    /\ lkOut' = [called |-> TRUE] @@ LookupPartitions(lkIn.brokers, lkIn.answers)
    /\ UNCHANGED <<brokerVars, createVars, r, reader, conns, loops, lkIn, commonVars>>

LkNext == LkCall

LookupSpec == LkInit /\ [][LkNext]_vars

\* ------------------------------------------------------ the worker's claims
StrictlyIncreasing(q) == \A i, j \in DOMAIN q : i < j => q[i] < q[j]
Elements(q) == {q[i] : i \in DOMAIN q}
\* The largest offset fetch loop l has passed to the handler, -1 when none.
Top(l) == Larger(l.before, MaxOf(l.delivered))

\* C1: within one connection epoch the offsets a fetch loop passes to the
\* handler are strictly increasing, and the handler is not invoked with a
\* fetched message whose offset is at most the last one delivered: a message
\* that was handled is the last of the delivered offsets and greater than all
\* before it, a message that was not has left them as they were.
C1_DeliveredStrictlyIncreasing ==
    \A g \in DOMAIN loops :
        LET l == loops[g] IN
        /\ StrictlyIncreasing(l.delivered)
        /\ l.last.handled =>
              /\ l.delivered # <<>>
              /\ l.last.offset = l.delivered[Len(l.delivered)]

\* C1 happens: a loop has delivered three offsets from one connection and has
\* just dropped a redelivery of one of them.
C1_Witness ==
    \E g \in DOMAIN loops :
        /\ Len(loops[g].delivered) >= 3
        /\ ~loops[g].last.handled
        /\ loops[g].last.offset \in Elements(loops[g].delivered)

\* C2: after a fetch failure and the recovery (the old connection closed, a
\* replacement created and seeked) the loop delivers only offsets strictly
\* greater than every offset it delivered before the failure, over any number
\* of failures and reconnects; it fetches only from an open, seeked
\* connection, the last one the worker created, and every connection it
\* fetched from earlier is closed.
C2_ResumesAbovePreFailureMax ==
    \A g \in DOMAIN loops :
        LET l == loops[g] IN
        /\ \A i \in DOMAIN l.delivered : l.delivered[i] > l.before
        /\ l.pc = "fetch" =>
              /\ reader[l.w].open /\ reader[l.w].seeked
              /\ reader[l.w].id = conns[l.w].made
              /\ conns[l.w].open \cap conns[l.w].seeked = {reader[l.w].id}

\* C2 happens: a loop that delivered before two failures delivers again on
\* its third connection.
C2_Witness ==
    \E g \in DOMAIN loops :
        /\ loops[g].before >= 1
        /\ loops[g].delivered # <<>>
        /\ reader[loops[g].w].id >= 3

\* C5: the dedup filter discards a fetched message only when the loop has
\* already delivered a message with an equal or greater offset; this holds
\* for every offset >= 0 and for the first message a worker ever fetches.
C5_DropsOnlyDelivered ==
    \A g \in DOMAIN loops :
        LET l == loops[g] IN
        (l.last.offset >= 0 /\ ~l.last.handled) => l.last.offset <= Top(l)

\* C10: every connection a fetch loop fetches from, the initial one and every
\* replacement, was seeked to the partition's newest offset, so every offset
\* delivered from it is at least the newest offset at its seek: a message
\* that was in the log before the seek is never delivered from it.
C10_SeeksToNewest ==
    \A g \in DOMAIN loops :
        LET l == loops[g]  c == reader[l.w] IN
        /\ l.pc = "fetch" => c.seeked /\ c.seekPos = c.newest
        /\ \A i \in DOMAIN l.delivered : l.delivered[i] >= c.newest

\* C10 happens: a loop delivers from a replacement connection while messages
\* produced after the last one it delivered, and before the replacement's
\* seek, were skipped.
C10_Witness ==
    \E g \in DOMAIN loops :
        LET l == loops[g]  c == reader[l.w] IN
        /\ c.id >= 2
        /\ l.before >= 1
        /\ c.newest > l.before + 1
        /\ l.delivered # <<>>

\* The states of a fetch loop: blocked in or returning from FetchMessage, in
\* a handler that does not return, in recover before its first createReader,
\* in recover after a failed one.
LoopStates == {"fetch", "handle", "recover", "retry"}
InRecovery(g) == g \in DOMAIN loops /\ loops[g].pc \in {"recover", "retry"}
Consuming(g) == g \in DOMAIN loops /\ loops[g].pc = "fetch"

\* C11: a started worker never terminates because of a fetch or reconnect
\* failure: its fetch loop is always fetching or recovering, a recovery is
\* left only for fetching, and, createReader succeeding at some attempt, a
\* loop in recovery is eventually back at its fetch, on an open and seeked
\* connection.
C11_NeverGivesUp ==
    /\ [](\A g \in DOMAIN loops : loops[g].pc \in LoopStates)
    /\ [][\A g \in DOMAIN loops :
            /\ g \in DOMAIN loops'
            /\ loops[g].pc \in {"recover", "retry"}
                  => loops'[g].pc \in {loops[g].pc, "retry", "fetch"}]_vars
    /\ \A g \in Workers :
          InRecovery(g) ~> (Consuming(g) /\ reader[loops[g].w].open
                                         /\ reader[loops[g].w].seeked)

\* C11 happens: a loop whose fetch failed and whose first replacement failed
\* to seek is fetching again from a later replacement and has delivered from
\* it.
C11_Witness ==
    \E g \in DOMAIN loops :
        /\ loops[g].pc = "fetch"
        /\ reader[loops[g].w].id >= 3
        /\ conns[loops[g].w].seeked # 1..conns[loops[g].w].made
        /\ loops[g].last.handled

\* Fetch loop g has a message under its cursor.
Behind(g) == reader[loops[g].w].pos < log[PartitionOf(loops[g].w)]
\* What belongs to fetch loop g: the loop, its worker's handle and connections.
Own(g) == <<loops[g], reader[loops[g].w], conns[loops[g].w]>>

\* C12: partitions are isolated. A step of one fetch loop leaves every other
\* loop, handle and connection as it was; and whatever the other workers do
\* (blocked in a handler for ever, stuck in recover), a started worker does
\* not stay at its fetch with a message under its cursor: it fetches the
\* messages of its partition until none is left, unless its own fetch fails
\* or its own handler hangs.
C12_PartitionsIsolated ==
    /\ [][\A g, h \in DOMAIN loops :
            (g # h /\ loops'[g] # loops[g]) => Own(h)' = Own(h)]_vars
    /\ \A g \in Workers : []<>(~(Consuming(g) /\ Behind(g)))

\* C12 happens: one worker is in a handler that does not return while
\* another, which was stuck in recover after a createReader that failed, is
\* fetching again and has delivered a message.
C12_Witness ==
    \E g, h \in DOMAIN loops :
        /\ loops[g].pc = "handle"
        /\ loops[h].pc = "fetch"
        /\ conns[loops[h].w].seeked # 1..conns[loops[h].w].made
        /\ loops[h].delivered # <<>>

\* C18: at every moment each worker has at most one open connection: the
\* current connection is closed before a recovery creates a replacement, and
\* a replacement whose seek failed is closed before the retry creates the
\* next.
C18_AtMostOneOpen == \A w \in Workers : Cardinality(conns[w].open) <= 1

\* --------------------------------------------------- the supervisor's claims
\* C3: after Close on a started supervisor every partition worker eventually
\* stops: its fetch loop has ended and its connection is released.
C3_CloseStopsWorkers ==
    (r.status /\ r.closing) ~>
        (\A g \in DOMAIN loops :
            loops[g].pc = "stopped" /\ ~reader[loops[g].w].open)

\* C4: Start launches exactly one fetch loop per partition returned by
\* discovery: once started, the running fetch loops are as many as the
\* partitions and every constructed worker runs exactly one of them; before
\* Start none runs.
C4_OneLoopPerPartition ==
    IF r.status
    THEN /\ Len(loops) = Len(r.partitions)
         /\ Len(r.readers) = Len(r.partitions)
         /\ \A w \in 1..Len(r.readers) :
                Cardinality({g \in DOMAIN loops : loops[g].w = w}) = 1
    ELSE loops = <<>>

\* C4 happens: a supervisor over MaxParts partitions has been started.
C4_Witness == r.status /\ Len(r.partitions) >= 2 /\ Len(loops) >= 2

\* C13: a constructed supervisor holds exactly one worker per partition the
\* catalog returned, the i-th worker bound to the i-th partition returned, so
\* no two workers to the same partition; no later step (Start, a failure, a
\* recovery, Close) changes the workers or the partition of any of them, and
\* every fetch loop runs one of these workers.
C13_OneWorkerPerPartition ==
    /\ [](ret.ok =>
            /\ r.partitions = queried[Len(queried)].partitions
            /\ DOMAIN r.readers = DOMAIN r.partitions
            /\ \A i \in DOMAIN r.readers : r.readers[i] = r.partitions[i]
            /\ \A i, j \in DOMAIN r.readers :
                  i # j => r.readers[i] # r.readers[j]
            /\ \A g \in DOMAIN loops : loops[g].w \in DOMAIN r.readers)
    /\ [][ret.ok => r'.readers = r.readers /\ r'.partitions = r.partitions]_vars

\* C13 happens: the catalog returned the partitions in another order than
\* that of their IDs, and a worker of the supervisor constructed over them has
\* recovered after Close.
C13_Witness ==
    /\ ret.ok /\ r.closing
    /\ r.partitions = Reversed(MaxParts)
    /\ \E g \in DOMAIN loops : reader[loops[g].w].id >= 2 /\ loops[g].pc = "fetch"

\* C14: for every supplied pair of min-bytes and max-bytes (zero, negative,
\* inverted, at the top of the integer range) the max-bytes a successfully
\* constructed supervisor stores is greater than or equal to its min-bytes.
C14_MaxBytesAtLeastMin == ret.ok => r.maxBytes >= r.minBytes

\* C19: for any sequence of Start and Close calls on one supervisor, Start
\* called more than once and Start called after Close included, each worker
\* has at most one fetch loop running.
C19_OneLoopPerWorker ==
    \A w \in Workers : Cardinality({g \in DOMAIN loops : loops[g].w = w}) <= 1

\* C20: when CreateReader has returned an error, every connection opened
\* during the call is closed: a failed construction leaves no open
\* connection behind.
C20_FailedCreateClosesAll ==
    (ret.called /\ ~ret.ok) => \A w \in Workers : conns[w].open = {}

\* C6: CreateReader returns ErrNoBrokers exactly when the broker list is
\* empty, ErrNoTopic exactly when it is not and the topic is empty,
\* ErrNoHandler exactly when both are set and the handler is nil, so none of
\* them when all three are set; with any of them no broker has been queried,
\* no connection opened and no supervisor returned.
C6_ConfigErrors ==
    ret.called =>
        /\ ret.err = "ErrNoBrokers" <=> Len(cfg.brokers) = 0
        /\ ret.err = "ErrNoTopic" <=> (Len(cfg.brokers) # 0 /\ cfg.topic = "")
        /\ ret.err = "ErrNoHandler" <=>
              (Len(cfg.brokers) # 0 /\ cfg.topic # "" /\ ~cfg.handler)
        /\ ret.err \in ConfigErrs =>
              /\ ~ret.ok
              /\ queried = <<>>
              /\ \A w \in Workers : conns[w].made = 0

\* C6 happens: a configuration with brokers, no topic and no handler was
\* refused for its topic.
C6_Witness ==
    /\ ret.called /\ ret.err = "ErrNoTopic"
    /\ Len(cfg.brokers) # 0 /\ ~cfg.handler

\* Every address of the configuration was queried and none answered.
LookupFailed ==
    /\ queried # <<>>
    /\ Len(queried) = Len(cfg.brokers)
    /\ \A i \in DOMAIN queried : queried[i].err # "nil"
\* The SetOffset of worker w's first connection failed.
InitialSeekFailed(w) == reader[w].id = 1 /\ ~reader[w].seeked

\* C9: construction is all-or-nothing. If the lookup failed, CreateReader
\* returned the lookup error and no supervisor, and no worker was
\* constructed. If the initial connection of a worker failed, CreateReader
\* returned that error and no supervisor. In both cases no fetch loop runs.
C9_AllOrNothing ==
    /\ LookupFailed =>
          /\ ret.err = "ErrNonePartionFound" /\ ~ret.ok /\ r = NoReader
          /\ \A w \in Workers : conns[w].made = 0
          /\ loops = <<>>
    /\ (\E w \in Workers : InitialSeekFailed(w)) =>
          /\ ret.err = "ErrSetOffset" /\ ~ret.ok /\ r = NoReader
          /\ loops = <<>>
    /\ ret.ok <=> r # NoReader

\* C9 happens: the second worker's initial seek failed after the first
\* worker had connected.
C9_Witness ==
    /\ ret.called
    /\ reader[1].seeked
    /\ InitialSeekFailed(2)

\* ------------------------------------------------------ the catalog's claims
Answered(i) == lkIn.answers[i].err = "nil"
FirstAnswer ==
    CHOOSE i \in DOMAIN lkIn.brokers :
        Answered(i) /\ \A j \in 1..(i - 1) : ~Answered(j)

\* C7: LookupPartitions queries the addresses in the order given and returns
\* the partition list of the first address that answers, without querying
\* any address after it.
C7_FirstAnswerWins ==
    (lkOut.called /\ \E i \in DOMAIN lkIn.brokers : Answered(i)) =>
        /\ lkOut.err = "nil"
        /\ lkOut.partitions = lkIn.answers[FirstAnswer].partitions
        /\ lkOut.queried = SubSeq(lkIn.brokers, 1, FirstAnswer)

\* C7 happens: of three addresses the first failed, the second answered and
\* the third would have answered with another list.
C7_Witness ==
    /\ lkOut.called
    /\ Len(lkIn.brokers) = 3
    /\ ~Answered(1) /\ Answered(2) /\ Answered(3)
    /\ lkIn.answers[2].partitions # lkIn.answers[3].partitions

\* C8: when every address fails, LookupPartitions returns no partition list
\* and the one error ErrNonePartionFound, whatever the addresses' errors were,
\* after querying every address once, in order.
C8_AggregateError ==
    (lkOut.called /\ \A i \in DOMAIN lkIn.brokers : ~Answered(i)) =>
        /\ lkOut.err = "ErrNonePartionFound"
        /\ lkOut.partitions = <<>>
        /\ lkOut.queried = lkIn.brokers

\* C8 happens: three addresses failed, not all with the same error.
C8_Witness ==
    /\ lkOut.called
    /\ Len(lkIn.brokers) = 3
    /\ \A i \in DOMAIN lkIn.brokers : ~Answered(i)
    /\ lkIn.answers[1].err # lkIn.answers[3].err

\* ----------------------------------------------------- the TaskGroup's claims
Failed == {t \in DOMAIN tasks : tasks[t].fails}
Count(q, e) == Cardinality({i \in DOMAIN q : q[i] = e})

\* C15: when Wait has returned, every function launched by Go has returned;
\* its result is nil exactly when all of them returned nil, and otherwise
\* holds the error of each function that returned one exactly once, and no
\* other error.
C15_WaitCollectsEveryError ==
    waiter.pc = "returned" =>
        /\ \A t \in DOMAIN tasks : tasks[t].pc # "f"
        /\ waiter.err = Nil <=> Failed = {}
        /\ \A t \in Failed : Count(waiter.err, t) = 1
        /\ \A i \in DOMAIN waiter.err : waiter.err[i] \in Failed

\* C15 happens: of three functions two returned an error, the later launched
\* one appended its error first, and Wait has returned.
C15_Witness ==
    /\ waiter.pc = "returned"
    /\ Len(tasks) >= 3
    /\ Cardinality(Failed) = 2
    /\ \E i, j \in DOMAIN waiter.err : i < j /\ waiter.err[i] > waiter.err[j]

\* ---------------------------------------------------- the SyncedData's claims
Started == {i \in Callers : refresher[i].pc # "none"}

\* C16: f is never executed by two execution contexts at the same time; of
\* the calls of Init, concurrent ones included, at most one takes effect,
\* and at most one refresh loop is ever started.
C16_RefreshNeverConcurrent ==
    /\ Cardinality(InF) <= 1
    /\ Cardinality({i \in Callers : inits[i].pc \notin {"idle", "failed"}}) <= 1
    /\ Cardinality(Started) <= 1

\* C16 happens: the refresh loop is executing f again after a failed attempt,
\* after a Set, while a second call of Init has failed and Stop is waiting.
C16_Witness ==
    \E i, j \in Callers :
        /\ refresher[i].pc = "f" /\ refresher[i].attempt >= 1
        /\ inits[j].pc = "failed"
        /\ stopper = "wg.Wait"
        /\ sd.d = "set"

\* C17: Stop stops the refresh goroutine gracefully: f returning, a Stop
\* that was called returns; when it has returned the refresh loop has exited
\* and f is not being executed, and from then on f is not invoked and no
\* refresh loop is started, for every ordering of Stop relative to Init and
\* to a refresh in progress.
C17_StopIsGraceful ==
    /\ (stopper = "wg.Wait") ~> (stopper = "returned")
    /\ [](stopper = "returned" =>
            /\ InF = {}
            /\ \A i \in Callers : refresher[i].pc \in {"none", "exited"})
    /\ [][stopper = "returned" => InF' \subseteq InF /\ Started' = Started]_vars

====
